---- MODULE Spec2Model ----
(***************************************************************************)
(* State-machine model of src/main.py: a FastAPI application over two      *)
(* SQLite tables (users, posts) accessed through SQLAlchemy sessions.      *)
(*                                                                         *)
(* Every handler that reads a row and later commits it is two steps, the   *)
(* read (query.first()) and the commit (db.commit(); db.refresh()): the    *)
(* session holds the row it loaded in between, and another request's       *)
(* session (another worker process on the same database file) may commit   *)
(* between the two.  Handlers that issue one statement are one step.       *)
(* A worker runs one handler at a time: the handlers are coroutines that   *)
(* never await.                                                            *)
(***************************************************************************)
EXTENDS Integers, Sequences, FiniteSets, TLC

VARIABLES users, posts, sess, resp, likeReqs, delState, created

vars == <<users, posts, sess, resp, likeReqs, delState, created>>

(* ------------------------------ bounds --------------------------------- *)
MaxUserId == 2
MaxPostId == 2
MaxLikeReqs == 3

UserIds == 1..MaxUserId
PostIds == 1..MaxPostId
OnePost == {1}

(* ------------------------- values of the fields ------------------------ *)
\* A string is a sequence of one-character strings.
None == <<>>
Some(v) == <<v>>

Workers == {"w1", "w2"}
OneWorker == {"w1"}

Names == {<<"a">>, <<"A", "b">>}
Texts == {<<"x">>, <<"y">>}
Filters == {None, Some(<<>>), Some(<<"b">>), Some(<<"_">>)}

NoRow == [absent |-> TRUE]

\* class UserDB: the columns of a users row besides the primary key.
UserDB(username, is_admin, image_url) ==
    [username |-> username, is_admin |-> is_admin, image_url |-> image_url]

\* class PostDB: the columns of a posts row besides the primary key.
PostDB(title, post_text, user_id, likes) ==
    [title |-> title, post_text |-> post_text, user_id |-> user_id, likes |-> likes]

\* class UserBase / UserCreate: the body of a user request.
UserCreate(name, is_admin, image_url) ==
    [name |-> name, is_admin |-> is_admin, image_url |-> image_url]

UserBodies == {UserCreate(<<"a">>, FALSE, None), UserCreate(<<"A", "b">>, TRUE, Some(<<"u">>))}

\* class PostBase / PostCreate: the body of a post request.
PostCreate(title, post_text, user_id) ==
    [title |-> title, post_text |-> post_text, user_id |-> user_id]

PostBodies == {PostCreate(<<"a">>, <<"x">>, 1), PostCreate(<<"a", "b">>, <<"y">>, 3)}

\* class User: the external shape of a user.
User(id, row) ==
    [id |-> id, name |-> row.username, is_admin |-> row.is_admin, image_url |-> row.image_url]

\* class Post: the external shape of a post.
Post(id, row) ==
    [id |-> id, title |-> row.title, post_text |-> row.post_text,
     user_id |-> row.user_id, likes |-> row.likes]

(* ------------------------------ storage -------------------------------- *)
Max(a, b) == IF a >= b THEN a ELSE b

\* Column(Integer, primary_key=True) on SQLite is the rowid: a new row gets
\* the greatest id in the table plus one (1 in an empty table).
NewId(table) ==
    LET used == {i \in DOMAIN table : table[i] # NoRow}
    IN  IF used = {} THEN 1 ELSE (CHOOSE i \in used : \A j \in used : j <= i) + 1

\* The session's unit of work: commit() writes the columns whose assigned
\* value differs from the loaded one, and no others.
FlushWholeRow(current, loaded, assigned) == assigned

Flush(current, loaded, assigned) ==
    [f \in DOMAIN current |-> IF assigned[f] # loaded[f] THEN assigned[f] ELSE current[f]]

(* ------------------------------ responses ------------------------------ *)
NoResp == [op |-> "none"]

Response(op, id, arg, status, body) ==
    [op |-> op, id |-> id, arg |-> arg, status |-> status, body |-> body]

\* HTTPException(status_code=404, ...)
NotFound(op, id, arg) == Response(op, id, arg, 404, NoRow)

\* An exception other than HTTPException leaves the handler: status 500.
ServerError(op, id, arg) == Response(op, id, arg, 500, NoRow)

(* ------------------------------ sessions ------------------------------- *)
\* get_db: one session per request; a session in flight holds the row that
\* its handler loaded.
Session(op, id, arg, loaded) == [op |-> op, id |-> id, arg |-> arg, loaded |-> loaded]

Idle == [op |-> "idle"]

(* --------------------- history of the requests served ------------------ *)
\* likeReqs[p]: the increment and decrement requests committed on post p
\* since it was created, and whether an increment followed a decrement.
\* delState[p]: "never" until a delete of post id p commits, then "deleted",
\* and "reused" once a create request is given the id p again.
\* created[u]: the body of the create request that stored user u, until an
\* update or a patch of u commits.
NoLikeReqs == [inc |-> 0, dec |-> 0, mixed |-> FALSE]

AfterInc(h) == [inc |-> h.inc + 1, dec |-> h.dec, mixed |-> h.mixed \/ h.dec > 0]
AfterDec(h) == [inc |-> h.inc, dec |-> h.dec + 1, mixed |-> h.mixed]

\* Base.metadata.create_all on a new database file: both tables empty.
\* U and P are the ids the tables may come to hold.
Empty(U, P) ==
    /\ users = [u \in U |-> NoRow]
    /\ posts = [p \in P |-> NoRow]
    /\ sess = [w \in Workers |-> Idle]
    /\ resp = NoResp
    /\ likeReqs = [p \in P |-> NoLikeReqs]
    /\ delState = [p \in P |-> "never"]
    /\ created = [u \in U |-> NoRow]

Init == Empty(UserIds, PostIds)


(* --------------------------- substring filter -------------------------- *)
\* SQLite compares the letters of a LIKE pattern without regard to case.
Lower(c) == CASE c = "A" -> "a" [] c = "B" -> "b" [] OTHER -> c

\* SQLite's LIKE: % matches any run of characters, _ any one character.
RECURSIVE Like(_, _)
Like(str, pat) ==
    IF pat = <<>> THEN str = <<>>
    ELSE IF Head(pat) = "%"
         THEN Like(str, Tail(pat)) \/ (str # <<>> /\ Like(Tail(str), pat))
    ELSE IF Head(pat) = "_"
         THEN str # <<>> /\ Like(Tail(str), Tail(pat))
    ELSE str # <<>> /\ Lower(Head(str)) = Lower(Head(pat)) /\ Like(Tail(str), Tail(pat))

\* column.contains(other): column LIKE '%' || other || '%', other unescaped.
contains(column, other) == Like(column, <<"%">> \o other \o <<"%">>)

\* if name: ... filter(column.contains(name)); a None or empty name filters nothing.
Filtered(table, column, name) ==
    {i \in DOMAIN table :
        /\ table[i] # NoRow
        /\ (name # None /\ name[1] # <<>>) => contains(table[i][column], name[1])}

(* ============================ user endpoints =========================== *)
\* POST /users/
NewUserRowNoAdmin(user) == UserDB(user.name, FALSE, user.image_url)

\* UserDB(username=user.name, is_admin=user.is_admin, image_url=user.image_url)
NewUserRow(user) == UserDB(user.name, user.is_admin, user.image_url)

create_user(user) ==
    LET id == NewId(users)
        row == NewUserRow(user)
    IN  /\ id \in DOMAIN users
        /\ users' = [users EXCEPT ![id] = row]
        /\ resp' = Response("create_user", id, user, 200, User(id, row))
        /\ created' = [created EXCEPT ![id] = user]
        /\ UNCHANGED <<posts, sess, likeReqs, delState>>

\* GET /users/?name=  (the handler of line 87)
get_users(name) ==
    /\ resp' = Response("get_users", 0, name, 200,
                        {User(i, users[i]) : i \in Filtered(users, "username", name)})
    /\ UNCHANGED <<users, posts, sess, likeReqs, delState, created>>

\* GET /users/?username=  (the handlers of lines 208 and 216): they return
\* the UserDB rows, which have no attribute `name` for the response model.
get_users_rows(username) ==
    /\ resp' = IF Filtered(users, "username", username) = {}
               THEN Response("get_users_rows", 0, username, 200, {})
               ELSE ServerError("get_users_rows", 0, username)
    /\ UNCHANGED <<users, posts, sess, likeReqs, delState, created>>

\* GET /users/{user_id}
get_user(user_id) ==
    /\ resp' = IF users[user_id] = NoRow
               THEN NotFound("get_user", user_id, None)
               ELSE Response("get_user", user_id, None, 200, User(user_id, users[user_id]))
    /\ UNCHANGED <<users, posts, sess, likeReqs, delState, created>>

\* The first half of a handler that updates a row: query.first(), and the
\* 404 when there is none.
ReadRow(w, table, op, id, arg) ==
    /\ sess[w] = Idle
    /\ IF table[id] = NoRow
       THEN /\ resp' = NotFound(op, id, arg)
            /\ sess' = sess
       ELSE /\ sess' = [sess EXCEPT ![w] = Session(op, id, arg, table[id])]
            /\ resp' = NoResp

\* db.commit(); db.refresh(db_user); return User(...)
CommitUser(w, assigned) ==
    LET s == sess[w] IN
    /\ users' = [users EXCEPT ![s.id] = Flush(@, s.loaded, assigned)]
    /\ resp' = Response(s.op, s.id, s.arg, 200, User(s.id, users'[s.id]))
    /\ sess' = [sess EXCEPT ![w] = Idle]
    /\ created' = [created EXCEPT ![s.id] = NoRow]
    /\ UNCHANGED <<posts, likeReqs, delState>>

\* PUT /users/{user_id}
update_user_read(w, user_id, user) ==
    /\ ReadRow(w, users, "update_user", user_id, user)
    /\ UNCHANGED <<users, posts, likeReqs, delState, created>>

update_user_commit(w) ==
    /\ sess[w].op = "update_user"
    /\ CommitUser(w, UserDB(sess[w].arg.name, sess[w].arg.is_admin, sess[w].arg.image_url))

\* PATCH /users/{user_id}/name
patch_user_name_read(w, user_id, name) ==
    /\ ReadRow(w, users, "patch_user_name", user_id, name)
    /\ UNCHANGED <<users, posts, likeReqs, delState, created>>

patch_user_name_commit(w) ==
    /\ sess[w].op = "patch_user_name"
    /\ CommitUser(w, [sess[w].loaded EXCEPT !.username = sess[w].arg])

(* ============================ post endpoints =========================== *)
\* POST /posts/  (the handler of line 126)
\* PostDB(**post.dict()); likes = Column(Integer, default=0)
NewPostRow(post) == PostDB(post.title, post.post_text, post.user_id, 0)

create_post(post) ==
    LET id == NewId(posts)
        row == NewPostRow(post)
    IN  /\ id \in DOMAIN posts
        /\ posts' = [posts EXCEPT ![id] = row]
        /\ resp' = Response("create_post", id, post, 200, Post(id, row))
        /\ likeReqs' = [likeReqs EXCEPT ![id] = NoLikeReqs]
        /\ delState' = [delState EXCEPT ![id] = IF @ = "never" THEN "never" ELSE "reused"]
        /\ UNCHANGED <<users, sess, created>>

\* POST /posts/  (the handler of line 134): PostCreate has no attribute
\* `text`, so building the row raises AttributeError before db.add.
create_post_2(post) ==
    /\ resp' = ServerError("create_post", 0, post)
    /\ UNCHANGED <<users, posts, sess, likeReqs, delState, created>>

\* GET /posts/?title=
get_posts(title) ==
    /\ resp' = Response("get_posts", 0, title, 200,
                        {Post(i, posts[i]) : i \in Filtered(posts, "title", title)})
    /\ UNCHANGED <<users, posts, sess, likeReqs, delState, created>>

\* GET /posts/{post_id}
get_post(post_id) ==
    /\ resp' = IF posts[post_id] = NoRow
               THEN NotFound("get_post", post_id, None)
               ELSE Response("get_post", post_id, None, 200, Post(post_id, posts[post_id]))
    /\ UNCHANGED <<users, posts, sess, likeReqs, delState, created>>

\* PUT /posts/{post_id}: after db_post.title is assigned, post.text raises
\* AttributeError; the session is closed without a commit.
update_post(post_id, post) ==
    /\ resp' = IF posts[post_id] = NoRow
               THEN NotFound("update_post", post_id, post)
               ELSE ServerError("update_post", post_id, post)
    /\ UNCHANGED <<users, posts, sess, likeReqs, delState, created>>

\* db.commit(); db.refresh(db_post); return the post.  An UPDATE that
\* matches no row raises StaleDataError, a refresh that finds no row
\* InvalidRequestError.
CommitPost(w, assigned) ==
    LET s == sess[w] IN
    /\ posts' = IF posts[s.id] = NoRow THEN posts
                ELSE [posts EXCEPT ![s.id] = Flush(@, s.loaded, assigned)]
    /\ resp' = IF posts[s.id] = NoRow THEN ServerError(s.op, s.id, s.arg)
               ELSE Response(s.op, s.id, s.arg, 200, Post(s.id, posts'[s.id]))
    /\ sess' = [sess EXCEPT ![w] = Idle]
    /\ UNCHANGED <<users, created>>

\* PATCH /posts/{post_id}/text
patch_post_text_read(w, post_id, text) ==
    /\ ReadRow(w, posts, "patch_post_text", post_id, text)
    /\ UNCHANGED <<users, posts, likeReqs, delState, created>>

patch_post_text_commit(w) ==
    /\ sess[w].op = "patch_post_text"
    /\ CommitPost(w, [sess[w].loaded EXCEPT !.post_text = sess[w].arg])
    /\ UNCHANGED <<likeReqs, delState>>

\* The like requests on post_id that hold a session.
PendingLikes(post_id) ==
    Cardinality({w \in Workers :
        /\ sess[w].op \in {"increment_post_likes", "decrement_post_likes"}
        /\ sess[w].id = post_id})

\* The bound on the like requests served for one post.
LikeReqsLeft(post_id) ==
    posts[post_id] # NoRow =>
        /\ posts[post_id].likes < MaxLikeReqs
        /\ likeReqs[post_id].inc + likeReqs[post_id].dec + PendingLikes(post_id) < MaxLikeReqs

IncrementedLikesNot(likes) == likes

\* db_post.likes += 1
IncrementedLikes(likes) == likes + 1

DecrementedLikesUnclamped(likes) == likes - 1

DecrementedLikesTwice(likes) == Max(0, likes - 2)

\* db_post.likes = max(0, db_post.likes - 1)
DecrementedLikes(likes) == Max(0, likes - 1)

\* PATCH /posts/{post_id}/likes/increment
increment_post_likes_read(w, post_id) ==
    /\ LikeReqsLeft(post_id)
    /\ ReadRow(w, posts, "increment_post_likes", post_id, None)
    /\ UNCHANGED <<users, posts, likeReqs, delState, created>>

increment_post_likes_commit(w) ==
    /\ sess[w].op = "increment_post_likes"
    /\ CommitPost(w, [sess[w].loaded EXCEPT !.likes = IncrementedLikes(@)])
    /\ likeReqs' = IF posts[sess[w].id] = NoRow THEN likeReqs
                   ELSE [likeReqs EXCEPT ![sess[w].id] = AfterInc(@)]
    /\ UNCHANGED delState

\* PATCH /posts/{post_id}/likes/decrement
decrement_post_likes_read(w, post_id) ==
    /\ LikeReqsLeft(post_id)
    /\ ReadRow(w, posts, "decrement_post_likes", post_id, None)
    /\ UNCHANGED <<users, posts, likeReqs, delState, created>>

decrement_post_likes_commit(w) ==
    /\ sess[w].op = "decrement_post_likes"
    /\ CommitPost(w, [sess[w].loaded EXCEPT !.likes = DecrementedLikes(@)])
    /\ likeReqs' = IF posts[sess[w].id] = NoRow THEN likeReqs
                   ELSE [likeReqs EXCEPT ![sess[w].id] = AfterDec(@)]
    /\ UNCHANGED delState

\* DELETE /posts/{post_id}
delete_post_read(w, post_id) ==
    /\ ReadRow(w, posts, "delete_post", post_id, None)
    /\ UNCHANGED <<users, posts, likeReqs, delState, created>>

DeletedNothing(table, id) == table

\* db.delete(db_post); db.commit(): DELETE FROM posts WHERE id = ?.  A DELETE
\* that matches no row is a warning, not an error.
Deleted(table, id) == [table EXCEPT ![id] = NoRow]

\* return db_post: the row as the session loaded it.
delete_post_commit(w) ==
    LET s == sess[w] IN
    /\ s.op = "delete_post"
    /\ posts' = Deleted(posts, s.id)
    /\ resp' = Response(s.op, s.id, s.arg, 200, Post(s.id, s.loaded))
    /\ sess' = [sess EXCEPT ![w] = Idle]
    /\ delState' = [delState EXCEPT ![s.id] = "deleted"]
    /\ UNCHANGED <<users, likeReqs, created>>

(* ============================ specifications =========================== *)
\* Every request of the application.
Next ==
    \/ \E user \in UserBodies : create_user(user)
    \/ \E name \in Filters : get_users(name)
    \/ \E username \in Filters : get_users_rows(username)
    \/ \E id \in DOMAIN users : get_user(id)
    \/ \E w \in Workers, id \in DOMAIN users, user \in UserBodies : update_user_read(w, id, user)
    \/ \E w \in Workers : update_user_commit(w)
    \/ \E w \in Workers, id \in DOMAIN users, name \in Names : patch_user_name_read(w, id, name)
    \/ \E w \in Workers : patch_user_name_commit(w)
    \/ \E post \in PostBodies : create_post(post)
    \/ \E post \in PostBodies : create_post_2(post)
    \/ \E title \in Filters : get_posts(title)
    \/ \E id \in DOMAIN posts : get_post(id)
    \/ \E id \in DOMAIN posts, post \in PostBodies : update_post(id, post)
    \/ \E w \in Workers, id \in DOMAIN posts, text \in Texts : patch_post_text_read(w, id, text)
    \/ \E w \in Workers : patch_post_text_commit(w)
    \/ \E w \in Workers, id \in DOMAIN posts : increment_post_likes_read(w, id)
    \/ \E w \in Workers : increment_post_likes_commit(w)
    \/ \E w \in Workers, id \in DOMAIN posts : decrement_post_likes_read(w, id)
    \/ \E w \in Workers : decrement_post_likes_commit(w)
    \/ \E w \in Workers, id \in DOMAIN posts : delete_post_read(w, id)
    \/ \E w \in Workers : delete_post_commit(w)

Spec == Init /\ [][Next]_vars

\* The requests that write one post, on two workers.
NextLikes ==
    \/ \E post \in PostBodies : create_post(post)
    \/ \E id \in DOMAIN posts, post \in PostBodies : update_post(id, post)
    \/ \E w \in Workers, id \in DOMAIN posts, text \in Texts : patch_post_text_read(w, id, text)
    \/ \E w \in Workers : patch_post_text_commit(w)
    \/ \E w \in Workers, id \in DOMAIN posts : increment_post_likes_read(w, id)
    \/ \E w \in Workers : increment_post_likes_commit(w)
    \/ \E w \in Workers, id \in DOMAIN posts : decrement_post_likes_read(w, id)
    \/ \E w \in Workers : decrement_post_likes_commit(w)
    \/ \E w \in Workers, id \in DOMAIN posts : delete_post_read(w, id)
    \/ \E w \in Workers : delete_post_commit(w)

SpecLikes == Empty(UserIds, OnePost) /\ [][NextLikes]_vars

\* The same requests served one after the other.
NextLikesSeq ==
    \/ \E post \in PostBodies : create_post(post)
    \/ \E id \in DOMAIN posts, post \in PostBodies : update_post(id, post)
    \/ \E w \in OneWorker, id \in DOMAIN posts, text \in Texts : patch_post_text_read(w, id, text)
    \/ \E w \in OneWorker : patch_post_text_commit(w)
    \/ \E w \in OneWorker, id \in DOMAIN posts : increment_post_likes_read(w, id)
    \/ \E w \in OneWorker : increment_post_likes_commit(w)
    \/ \E w \in OneWorker, id \in DOMAIN posts : decrement_post_likes_read(w, id)
    \/ \E w \in OneWorker : decrement_post_likes_commit(w)
    \/ \E w \in OneWorker, id \in DOMAIN posts : delete_post_read(w, id)
    \/ \E w \in OneWorker : delete_post_commit(w)
    \/ \E id \in DOMAIN posts : get_post(id)

SpecLikesSeq == Empty(UserIds, OnePost) /\ [][NextLikesSeq]_vars

\* Creating, deleting and fetching posts.
NextDelete ==
    \/ \E post \in PostBodies : create_post(post)
    \/ \E post \in PostBodies : create_post_2(post)
    \/ \E w \in Workers, id \in DOMAIN posts : delete_post_read(w, id)
    \/ \E w \in Workers : delete_post_commit(w)
    \/ \E id \in DOMAIN posts : get_post(id)

SpecDelete == Init /\ [][NextDelete]_vars

\* The user endpoints.
NextUsers ==
    \/ \E user \in UserBodies : create_user(user)
    \/ \E id \in DOMAIN users : get_user(id)
    \/ \E w \in Workers, id \in DOMAIN users, user \in UserBodies : update_user_read(w, id, user)
    \/ \E w \in Workers : update_user_commit(w)
    \/ \E w \in Workers, id \in DOMAIN users, name \in Names : patch_user_name_read(w, id, name)
    \/ \E w \in Workers : patch_user_name_commit(w)

SpecUsers == Init /\ [][NextUsers]_vars

\* The list endpoints over the rows that create requests stored.
NextList ==
    \/ \E user \in UserBodies : create_user(user)
    \/ \E post \in PostBodies : create_post(post)
    \/ \E name \in Filters : get_users(name)
    \/ \E username \in Filters : get_users_rows(username)
    \/ \E title \in Filters : get_posts(title)

SpecList == Init /\ [][NextList]_vars

\* The patch requests, and the requests that write the other columns of
\* the same rows (a full update of a user, a first like of a post), on a
\* database that earlier requests filled: either table holds any rows that
\* create and patch requests can have stored.
PatchIds == {1, 2}

UserRows == {UserDB(n, b.is_admin, b.image_url) : n \in Names, b \in UserBodies}

PostRows == {PostDB(b.title, x, b.user_id, 0) : b \in PostBodies, x \in Texts}

\* No request deletes a user: the ids of the users are 1..n.
StoredUsers ==
    {t \in [PatchIds -> UserRows \cup {NoRow}] :
        \A i, j \in PatchIds : (i < j /\ t[j] # NoRow) => t[i] # NoRow}

StoredPosts == [PatchIds -> PostRows \cup {NoRow}]

Filled ==
    /\ \/ users \in StoredUsers /\ posts = [p \in PatchIds |-> NoRow]
       \/ users = [u \in PatchIds |-> NoRow] /\ posts \in StoredPosts
    /\ sess = [w \in Workers |-> Idle]
    /\ resp = NoResp
    /\ likeReqs = [p \in PatchIds |->
                     IF posts[p] = NoRow THEN NoLikeReqs
                     ELSE [inc |-> posts[p].likes, dec |-> 0, mixed |-> FALSE]]
    /\ delState = [p \in PatchIds |-> "never"]
    /\ created = [u \in PatchIds |-> NoRow]

NextPatch ==
    \/ \E w \in Workers, id \in DOMAIN users, name \in Names : patch_user_name_read(w, id, name)
    \/ \E w \in Workers : patch_user_name_commit(w)
    \/ \E w \in Workers, id \in DOMAIN users, user \in UserBodies : update_user_read(w, id, user)
    \/ \E w \in Workers : update_user_commit(w)
    \/ \E w \in Workers, id \in DOMAIN posts, text \in Texts : patch_post_text_read(w, id, text)
    \/ \E w \in Workers : patch_post_text_commit(w)
    \/ \E w \in Workers, id \in DOMAIN posts :
          posts[id] # NoRow /\ posts[id].likes = 0 /\ increment_post_likes_read(w, id)
    \/ \E w \in Workers : increment_post_likes_commit(w)

SpecPatch == Filled /\ [][NextPatch]_vars

(* ================================ claims =============================== *)
LikeOps == {"increment_post_likes", "decrement_post_likes"}

Exists(p) == posts[p] # NoRow

\* C1: in every reachable state every stored post has likes >= 0, however
\* the create, update, patch, increment, decrement and delete requests on it
\* interleave between reading the row and committing it; a decrement served
\* on a post with likes = 0 answers likes = 0.
C1_LikesNonNegative ==
    /\ \A p \in DOMAIN posts : Exists(p) => posts[p].likes >= 0
    /\ (resp.op = "decrement_post_likes" /\ resp.status = 200) => resp.body.likes >= 0

\* A decrement was served on a post that no request had liked, while another
\* request on the post held a session, and the post has likes = 0.
C1_Witness ==
    /\ resp.op = "decrement_post_likes"
    /\ resp.status = 200
    /\ Exists(resp.id)
    /\ likeReqs[resp.id].inc = 0
    /\ posts[resp.id].likes = 0
    /\ \E w \in Workers : sess[w] # Idle

\* C2: with the requests served one after the other, a new post that got N
\* increments and then M <= N decrements has likes = N - M, and the response
\* of each of these requests reports the likes just stored.
C2_LikesCount ==
    \A p \in DOMAIN posts :
        LET h == likeReqs[p] IN
        (Exists(p) /\ ~h.mixed /\ h.dec <= h.inc) =>
            /\ posts[p].likes = h.inc - h.dec
            /\ (resp.op \in LikeOps /\ resp.id = p /\ resp.status = 200) =>
                  resp.body = Post(p, posts[p])

\* Two increments and then one decrement were served on a post.
C2_Witness ==
    /\ resp.op = "decrement_post_likes"
    /\ resp.status = 200
    /\ likeReqs[resp.id] = [inc |-> 2, dec |-> 1, mixed |-> FALSE]
    /\ Exists(resp.id)
    /\ posts[resp.id].likes = 1

\* C3, as claimed: once a delete of post id p has succeeded, every later
\* get-by-id for p answers 404, whatever requests were served in between.
C3_GetAfterDelete ==
    (resp.op = "get_post" /\ delState[resp.id] # "never") => resp.status = 404

\* C3, amended: once a delete of post id p has succeeded, every later
\* get-by-id for p answers 404 as long as no create-post has been given the
\* id p again.
C3_GetAfterDeleteUntilReuse ==
    (resp.op = "get_post" /\ delState[resp.id] = "deleted") => resp.status = 404

\* A get-by-id of a deleted post id answered 404 while another post is stored.
C3_Witness ==
    /\ resp.op = "get_post"
    /\ delState[resp.id] = "deleted"
    /\ resp.status = 404
    /\ \E q \in DOMAIN posts : Exists(q)

\* C4: a full update of a post on an existing id stores the title, post_text
\* and user_id of the body, keeps id and likes, and returns the updated
\* post; on an absent id it answers 404.
C4_UpdatePost ==
    resp.op = "update_post" =>
        IF Exists(resp.id)
        THEN /\ resp.status = 200
             /\ posts[resp.id].title = resp.arg.title
             /\ posts[resp.id].post_text = resp.arg.post_text
             /\ posts[resp.id].user_id = resp.arg.user_id
             /\ resp.body = Post(resp.id, posts[resp.id])
        ELSE resp.status = 404

\* C5: a create-post request, whichever handler of the route serves it, adds
\* exactly one row, with the three values of the body, likes = 0 and an id
\* that no stored post has, and returns that row.
C5_CreatePost ==
    [][(\E post \in PostBodies : create_post(post) \/ create_post_2(post)) =>
          /\ resp'.status = 200
          /\ ~Exists(resp'.id)
          /\ posts' = [posts EXCEPT ![resp'.id] =
                          PostDB(resp'.arg.title, resp'.arg.post_text, resp'.arg.user_id, 0)]
          /\ resp'.body = Post(resp'.id, posts'[resp'.id])]_vars

ByIdOps ==
    {"get_user", "update_user", "patch_user_name", "get_post", "update_post",
     "patch_post_text", "increment_post_likes", "decrement_post_likes", "delete_post"}

\* C6: a by-id operation answers 404 when the id has no row, and 404 is the
\* only error it answers: with a row it answers 200.
C6_OnlyNotFound ==
    resp.op \in ByIdOps =>
        /\ resp.status \in {200, 404}
        /\ resp.status = 404 => (IF resp.op \in {"get_user", "update_user", "patch_user_name"}
                                 THEN users[resp.id] = NoRow ELSE ~Exists(resp.id))

\* C7: the commit of patch-user-name changes the name of its user and no
\* other column or row of either table; the commit of patch-post-text
\* changes the post_text of its post and no other column or row.  The new
\* value is the one of the request whenever it differs from the value the
\* request read.
C7_PatchFrame ==
    [][\A w \in Workers :
          /\ patch_user_name_commit(w) =>
                /\ users' = [users EXCEPT ![sess[w].id].username = users'[sess[w].id].username]
                /\ posts' = posts
                /\ sess[w].arg # sess[w].loaded.username =>
                      users'[sess[w].id].username = sess[w].arg
          /\ patch_post_text_commit(w) =>
                /\ posts' = [posts EXCEPT ![sess[w].id].post_text = posts'[sess[w].id].post_text]
                /\ users' = users
                /\ sess[w].arg # sess[w].loaded.post_text =>
                      posts'[sess[w].id].post_text = sess[w].arg]_vars

\* A patch of a post's text was served after another request liked the post
\* it had read, with a second post stored.
C7_Witness ==
    /\ resp.op = "patch_post_text"
    /\ resp.status = 200
    /\ resp.body.post_text = resp.arg
    /\ resp.body.likes = 1
    /\ \E q \in DOMAIN posts : q # resp.id /\ Exists(q)

\* The same for a patch of a user's name, served after a full update of the
\* user it had read.
C7_WitnessUser ==
    /\ resp.op = "patch_user_name"
    /\ resp.status = 200
    /\ resp.body.name = resp.arg
    /\ \E w \in Workers : sess[w] # Idle
    /\ \E q \in DOMAIN users : q # resp.id /\ users[q] # NoRow

\* C8: a get-by-id for the id that create-user returned, with no update or
\* patch of that user committed in between, returns that id and the name,
\* is_admin and image_url of the create request.
C8_CreateThenGet ==
    (resp.op = "get_user" /\ resp.status = 200 /\ created[resp.id] # NoRow) =>
        resp.body = [id |-> resp.id, name |-> created[resp.id].name,
                     is_admin |-> created[resp.id].is_admin,
                     image_url |-> created[resp.id].image_url]

\* The second user, created as an admin with an image, was fetched.
C8_Witness ==
    /\ resp.op = "get_user"
    /\ resp.status = 200
    /\ resp.id = 2
    /\ created[2] # NoRow
    /\ created[2].is_admin
    /\ created[2].image_url # None

\* s occurs in str as a run of consecutive characters.
Substring(s, str) ==
    \E i \in 1..(Len(str) - Len(s) + 1) : SubSeq(str, i, i + Len(s) - 1) = s

Matching(table, column, s) ==
    {i \in DOMAIN table :
        table[i] # NoRow /\ ((s # None /\ s[1] # <<>>) => Substring(s[1], table[i][column]))}

\* C9: list-users with ?name=s and list-posts with ?title=s return exactly
\* the stored rows whose name (title) contains s, and every stored row when
\* there is no filter or an empty one.
C9_ListFilter ==
    /\ resp.op = "get_users" =>
          /\ resp.status = 200
          /\ resp.body = {User(i, users[i]) : i \in Matching(users, "username", resp.arg)}
    /\ resp.op = "get_posts" =>
          /\ resp.status = 200
          /\ resp.body = {Post(i, posts[i]) : i \in Matching(posts, "title", resp.arg)}

\* The values that i increments and d decrements, applied one after the
\* other in some order to likes = v, can leave.
RECURSIVE Outcomes(_, _, _)
Outcomes(v, i, d) ==
    IF i = 0 /\ d = 0 THEN {v}
    ELSE (IF i > 0 THEN Outcomes(v + 1, i - 1, d) ELSE {})
         \cup (IF d > 0 THEN Outcomes(Max(0, v - 1), i, d - 1) ELSE {})

\* C10, as claimed: once the like requests in flight on a post have all
\* committed, its likes are what the committed requests leave when applied
\* one after the other in some order (after K increments of a new post: K).
C10_NoLostLike ==
    \A p \in DOMAIN posts :
        (Exists(p) /\ PendingLikes(p) = 0) =>
            posts[p].likes \in Outcomes(0, likeReqs[p].inc, likeReqs[p].dec)

\* C10, amended: like requests in flight together can overwrite each other.
\* On a post whose id was never reused, K committed increments and no
\* decrement leave likes between 1 and K, and increments and decrements
\* together leave likes between 0 and the number of increments.
C10_LikesWithinRequests ==
    \A p \in DOMAIN posts :
        (Exists(p) /\ delState[p] = "never") =>
            /\ posts[p].likes <= likeReqs[p].inc
            /\ (likeReqs[p].dec = 0 /\ likeReqs[p].inc > 0) => posts[p].likes >= 1

\* Two increments of a new post have committed and its likes are 1.
C10_Witness ==
    \E p \in DOMAIN posts :
        /\ Exists(p)
        /\ delState[p] = "never"
        /\ PendingLikes(p) = 0
        /\ likeReqs[p] = [inc |-> 2, dec |-> 0, mixed |-> FALSE]
        /\ posts[p].likes = 1

====
